---- MODULE Spec2Model ----
(***************************************************************************)
(* Model of the matching engine of matching-engine/src/matching.rs and     *)
(* matching-engine/src/models.rs: a single-instrument limit order book     *)
(* with price levels kept in ordered maps and a binary heap per level.     *)
(*                                                                         *)
(* One call of MatchingEngine::process is one action.  The u64 fields are  *)
(* modelled by U64Bits-bit unsigned integers, so that an arithmetic        *)
(* overflow happens at 2^U64Bits instead of 2^64.  An overflowing          *)
(* operation panics in a build with overflow checks and wraps in a build   *)
(* without them; both builds are modelled.                                 *)
(***************************************************************************)
EXTENDS Integers, Sequences, FiniteSets, TLC

\* ------------------------------------------------------------------------
\* Bounds of the model
\* ------------------------------------------------------------------------
MaxCalls == 3

MaxPrice == 2

MaxAmount == 2

U64Bits == 2

Modulus == 2 ^ U64Bits

U64_MAX == Modulus - 1

U64_MIN == 0

Prices == 1..MaxPrice

Amounts == 1..MaxAmount

Signers == {"ALICE", "BOB"}

\* ------------------------------------------------------------------------
\* models.rs
\* ------------------------------------------------------------------------
Side == {"Buy", "Sell"}

Order == [price : Prices, amount : Amounts, side : Side, signer : Signers]

into_partial_order(self, ord, remaining) ==
    [price |-> self.price, amount |-> self.amount, remaining |-> remaining,
     side |-> self.side, signer |-> self.signer, ordinal |-> ord]

partial_cmp_not_reversed(a, b) == a.ordinal > b.ordinal

\* a > b in the order of `impl PartialOrd for PartialOrder`:
\* Reverse(a.ordinal) > Reverse(b.ordinal)
partial_cmp(a, b) == a.ordinal < b.ordinal

\* std BinaryHeap<PartialOrder>.  A heap is the sequence of its elements in
\* the order they were pushed; pop takes the greatest element of the heap in
\* the order of partial_cmp (the comparison operators are what the heap
\* uses), the earliest pushed one among equals.
BinaryHeap_new == << >>

BinaryHeap_push(heap, x) == Append(heap, x)

BinaryHeap_append(heap, other) == heap \o other

BinaryHeap_top(heap) ==
    CHOOSE i \in 1..Len(heap) :
        \A j \in 1..Len(heap) :
            /\ ~partial_cmp(heap[j], heap[i])
            /\ (j < i => partial_cmp(heap[i], heap[j]))

BinaryHeap_peek(heap) == heap[BinaryHeap_top(heap)]

BinaryHeap_pop(heap) ==
    LET t == BinaryHeap_top(heap)
    IN  [i \in 1..(Len(heap) - 1) |-> IF i < t THEN heap[i] ELSE heap[i + 1]]

\* PartialOrder::take_from: the first component is `pos` after the call, the
\* second the returned order, the third tells whether `pos.remaining - take`
\* went below zero.
take_from(pos, take, price) ==
    LET remaining_amount == (pos.remaining - take) % Modulus
        pos2 == [pos EXCEPT !.remaining = remaining_amount]
        new == [pos2 EXCEPT !.amount = remaining_amount, !.price = price]
    IN  [pos |-> pos2, new |-> new, underflow |-> pos.remaining < take]

\* ------------------------------------------------------------------------
\* matching.rs
\* ------------------------------------------------------------------------
u64_min(a, b) == IF a <= b THEN a ELSE b

\* BTreeMap::range / range_mut: the keys of `map` inside lo..=hi, ascending.
RECURSIVE Ascending(_)
Ascending(S) ==
    IF S = {} THEN << >>
    ELSE LET k == CHOOSE x \in S : \A y \in S : x <= y
         IN  <<k>> \o Ascending(S \ {k})

RECURSIVE Descending(_)
Descending(S) ==
    IF S = {} THEN << >>
    ELSE LET k == CHOOSE x \in S : \A y \in S : x >= y
         IN  <<k>> \o Descending(S \ {k})

range_mut_descending(map, lo, hi) ==
    Descending({k \in DOMAIN map : lo <= k /\ k <= hi})

range_mut(map, lo, hi) == Ascending({k \in DOMAIN map : lo <= k /\ k <= hi})

\* BTreeMap::entry(price).or_insert(vec![].into())
or_insert(map, price) ==
    IF price \in DOMAIN map THEN map
    ELSE [k \in (DOMAIN map) \cup {price} |->
             IF k = price THEN BinaryHeap_new ELSE map[k]]

retain_everything(map) == map

\* BTreeMap::retain(|_, orders| !orders.is_empty())
retain_non_empty(map) ==
    [k \in {p \in DOMAIN map : map[p] # << >>} |-> map[k]]

\* Iterator::sum over u64: the wrapped total, and whether an addition
\* overflowed.
RECURSIVE SumSeq(_)
SumSeq(s) == IF s = << >> THEN 0 ELSE Head(s) + SumSeq(Tail(s))

u64_sum(s) == [value |-> SumSeq(s) % Modulus, overflow |-> SumSeq(s) >= Modulus]

AmountsOf(s) == [i \in 1..Len(s) |-> s[i].amount]

\* MatchingEngine::get_matched_amount
get_matched_amount(receipt) == u64_sum(AmountsOf(receipt.matches))

\* MatchingEngine::get_amount_at_price_level
get_amount_at_price_level(b, a, price, side) ==
    LET map == IF side = "Buy" THEN b ELSE a
    IN  IF price \in DOMAIN map THEN u64_sum(AmountsOf(map[price]))
        ELSE [value |-> 0, overflow |-> FALSE]

is_self_match_never(order, opposite_order) == FALSE

\* `order.signer == opposite_order.signer`: the resting order is the incoming
\* signer's own and must not be matched.
is_self_match(order, opposite_order) == order.signer = opposite_order.signer

\* The body of the `while let Some(mut opposite_order) = price_level.pop()`
\* loop of match_order for a popped order of another signer, from
\* `remaining_amount -= matched_amount` on.  st.heap is the price level
\* without the popped order; tf is the result of take_from.  st.stop becomes
\* "break" by `break 'outer` and "panic" when a checked subtraction goes
\* below zero; st.takes records the matched_amount of every fill and
\* st.underflow whether a subtraction went below zero.
RECURSIVE match_level(_, _, _, _)
match_fill(order, price, checks, st, matched_amount, tf) ==
    IF checks /\ (st.remaining_amount < matched_amount \/ tf.underflow)
    THEN [st EXCEPT !.stop = "panic", !.underflow = TRUE]
    ELSE match_level(order, price, checks,
             [st EXCEPT
                !.heap = IF tf.new.remaining > 0
                         THEN BinaryHeap_push(@, tf.new) ELSE @,
                !.stop = IF tf.new.remaining > 0 THEN "break" ELSE @,
                !.remaining_amount = (@ - matched_amount) % Modulus,
                !.matches = Append(@, tf.pos),
                !.takes = Append(@, matched_amount),
                !.underflow = @ \/ st.remaining_amount < matched_amount
                                \/ tf.underflow])

\* `let matched_amount = u64::min(order.amount, opposite_order.amount)` and
\* the call of take_from
match_amount(order, price, checks, st, opposite_order, matched_amount) ==
    match_fill(order, price, checks, st, matched_amount,
               take_from(opposite_order, matched_amount, price))

\* The body of the `while let` loop for the popped opposite_order
match_popped(order, price, checks, st, opposite_order) ==
    IF is_self_match(order, opposite_order)
    THEN match_level(order, price, checks,
             [st EXCEPT !.self_matches = BinaryHeap_push(@, opposite_order)])
    ELSE match_amount(order, price, checks, st, opposite_order,
                      u64_min(order.amount, opposite_order.amount))

\* The `while let Some(mut opposite_order) = price_level.pop()` loop of
\* match_order over the price level st.heap
match_level(order, price, checks, st) ==
    IF st.stop # "none" \/ st.heap = << >> THEN st
    ELSE match_popped(order, price, checks,
                      [st EXCEPT !.heap = BinaryHeap_pop(@)],
                      BinaryHeap_peek(st.heap))

\* The end of one round of the 'outer loop: st1 is the state after the
\* `while let` loop over the level at `price`.
RECURSIVE match_levels(_, _, _, _, _)
match_level_done(order, book, entries, checks, price, st1) ==
    IF st1.stop # "none"
    THEN [st |-> st1, book |-> [book EXCEPT ![price] = st1.heap]]
    ELSE match_levels(order,
             [book EXCEPT ![price] = BinaryHeap_append(st1.heap, st1.self_matches)],
             Tail(entries), checks,
             [st1 EXCEPT !.self_matches = BinaryHeap_new])

\* The `'outer: while remaining_amount > 0` loop of match_order over the
\* price levels `entries` (keys of `book`, in iteration order).
match_levels(order, book, entries, checks, st) ==
    IF st.remaining_amount > 0 /\ entries # << >>
    THEN match_level_done(order, book, entries, checks, Head(entries),
             match_level(order, Head(entries), checks,
                         [st EXCEPT !.heap = book[Head(entries)]]))
    ELSE [st |-> st, book |-> book]

\* `Receipt { ordinal, matches }` and the book match_order leaves
match_order_result(ord, r) ==
    [receipt |-> [ordinal |-> ord, matches |-> r.st.matches],
     book |-> r.book,
     panicked |-> r.st.stop = "panic",
     broke |-> r.st.stop = "break",
     underflow |-> r.st.underflow,
     takes |-> r.st.takes]

\* MatchingEngine::match_order
match_order(order, book, entries, ord, checks) ==
    match_order_result(ord,
        match_levels(order, book, entries, checks,
            [heap |-> << >>, self_matches |-> BinaryHeap_new,
             remaining_amount |-> order.amount, matches |-> << >>,
             takes |-> << >>, stop |-> "none", underflow |-> FALSE]))

orderbook_entries_no_limit(self, partial) ==
    IF partial.side = "Buy"
    THEN range_mut(self.asks, U64_MIN, U64_MAX)
    ELSE range_mut(self.bids, U64_MIN, U64_MAX)

\* The price levels of the opposite side handed to match_order:
\* `self.asks.range_mut(u64::MIN..=partial.price)` for a Buy,
\* `self.bids.range_mut(partial.price..=u64::MAX)` for a Sell.
orderbook_entries(self, partial) ==
    IF partial.side = "Buy"
    THEN range_mut(self.asks, U64_MIN, partial.price)
    ELSE range_mut(self.bids, partial.price, U64_MAX)

push_resting_replacing(own, resting) ==
    [k \in DOMAIN or_insert(own, resting.price) |->
        IF k = resting.price
        THEN BinaryHeap_push(BinaryHeap_new, resting)
        ELSE own[k]]

\* `bids.push(partial)` / `asks.push(partial)` into the level of
\* entry(price).or_insert(..) of the incoming order's own side
push_resting(own, resting) ==
    [k \in DOMAIN or_insert(own, resting.price) |->
        IF k = resting.price
        THEN BinaryHeap_push(or_insert(own, resting.price)[k], resting)
        ELSE own[k]]

\* MatchingEngine::process after a panic in match_order or in
\* get_matched_amount: the engine as the panic leaves it, no Receipt.
process_panicked(self, partial, m) ==
    [self |-> [ordinal |-> partial.ordinal,
               bids |-> IF partial.side = "Buy" THEN self.bids ELSE m.book,
               asks |-> IF partial.side = "Buy" THEN m.book ELSE self.asks,
               matches |-> self.matches],
     panicked |-> TRUE,
     receipt |-> [ordinal |-> partial.ordinal, matches |-> << >>],
     overflowed |-> TRUE, underflow |-> m.underflow, broke |-> m.broke,
     fills |-> << >>, takes |-> << >>, rested |-> 0]

\* MatchingEngine::process from `if matched_amount < original_amount` on:
\* the leftover is pushed on the order's own side, empty price levels are
\* removed, the receipt is logged and returned.
process_rest(self, partial, m, matched_amount, original_amount, own) ==
    [self |-> [ordinal |-> partial.ordinal,
               bids |-> retain_non_empty(
                           IF partial.side = "Buy" THEN own ELSE m.book),
               asks |-> retain_non_empty(
                           IF partial.side = "Buy" THEN m.book ELSE own),
               matches |-> Append(self.matches, m.receipt)],
     panicked |-> FALSE,
     receipt |-> m.receipt,
     overflowed |-> m.underflow \/ matched_amount.overflow,
     underflow |-> m.underflow, broke |-> m.broke,
     fills |-> m.receipt.matches, takes |-> m.takes,
     rested |-> IF matched_amount.value < original_amount
                THEN original_amount - matched_amount.value ELSE 0]

\* MatchingEngine::process from `let matched_amount = ...` on
process_matched(self, partial, checks, m, matched_amount, original_amount) ==
    IF m.panicked \/ (checks /\ matched_amount.overflow)
    THEN process_panicked(self, partial, m)
    ELSE process_rest(self, partial, m, matched_amount, original_amount,
             IF matched_amount.value < original_amount
             THEN push_resting(
                      IF partial.side = "Buy" THEN self.bids ELSE self.asks,
                      [partial EXCEPT
                          !.amount = original_amount - matched_amount.value])
             ELSE IF partial.side = "Buy" THEN self.bids ELSE self.asks)

\* MatchingEngine::process from `let receipt = match &partial.side` on
process_partial(self, partial, checks, original_amount, m) ==
    process_matched(self, partial, checks, m, get_matched_amount(m.receipt),
                    original_amount)

\* MatchingEngine::process on the engine `self` = [ordinal, bids, asks,
\* matches].  `checks` tells whether the build has overflow checks.  The
\* result holds the engine after the call, the returned receipt, whether the
\* call panicked, and what the call took from and added to the book.
process_order(self, partial, checks, original_amount) ==
    process_partial(self, partial, checks, original_amount,
        match_order(partial,
                    IF partial.side = "Buy" THEN self.asks ELSE self.bids,
                    orderbook_entries(self, partial), partial.ordinal, checks))

next_ordinal_not_incremented(self) == self.ordinal

\* `self.ordinal += 1; let ordinal = self.ordinal;`
next_ordinal(self) == self.ordinal + 1

process(self, order, checks) ==
    process_order(self,
                  into_partial_order(order, next_ordinal(self), order.amount),
                  checks, order.amount)

\* ------------------------------------------------------------------------
\* accounting/src/accounts.rs, accounting/src/errors.rs
\* ------------------------------------------------------------------------
\* Accounts::new: HashMap<String, u64>, here signer -> balance
Accounts_new == [signer \in {} |-> 0]

\* the amounts a ledger call can be given: any u64
LedgerAmounts == U64_MIN..U64_MAX

checked_add_wrapping(a, b) == [some |-> TRUE, value |-> (a + b) % Modulus]

\* u64::checked_add: None on overflow
checked_add(a, b) ==
    IF a + b > U64_MAX THEN [some |-> FALSE]
    ELSE [some |-> TRUE, value |-> a + b]

\* u64::checked_sub: None on underflow
checked_sub(a, b) ==
    IF a < b THEN [some |-> FALSE]
    ELSE [some |-> TRUE, value |-> a - b]

AccountNotFound(signer) == [error |-> "AccountNotFound", account |-> signer]

AccountUnderFunded(signer, amount) ==
    [error |-> "AccountUnderFunded", account |-> signer, amount |-> amount]

AccountOverFunded(signer, amount) ==
    [error |-> "AccountOverFunded", account |-> signer, amount |-> amount]

Ok(value) == [ok |-> TRUE, value |-> value]

Err(error) == [ok |-> FALSE, error |-> error]

Tx_Deposit(signer, amount) ==
    [tx |-> "Deposit", account |-> signer, amount |-> amount]

Tx_Withdraw(signer, amount) ==
    [tx |-> "Withdraw", account |-> signer, amount |-> amount]

\* HashMap::insert, and the assignment through get_mut
HashMap_insert(map, key, value) ==
    [k \in (DOMAIN map) \cup {key} |-> IF k = key THEN value ELSE map[k]]

deposit_existing(self, signer, amount, new_amount) ==
    IF new_amount.some
    THEN [self |-> HashMap_insert(self, signer, new_amount.value),
          result |-> Ok(Tx_Deposit(signer, amount))]
    ELSE [self |-> self, result |-> Err(AccountOverFunded(signer, amount))]

\* Accounts::deposit
deposit(self, signer, amount) ==
    IF signer \in DOMAIN self
    THEN deposit_existing(self, signer, amount,
                          checked_add(self[signer], amount))
    ELSE [self |-> HashMap_insert(self, signer, amount),
          result |-> Ok(Tx_Deposit(signer, amount))]

withdraw_existing(self, signer, amount, new_amount) ==
    IF new_amount.some
    THEN [self |-> HashMap_insert(self, signer, new_amount.value),
          result |-> Ok(Tx_Withdraw(signer, amount))]
    ELSE [self |-> self, result |-> Err(AccountUnderFunded(signer, amount))]

\* Accounts::withdraw
withdraw(self, signer, amount) ==
    IF signer \in DOMAIN self
    THEN withdraw_existing(self, signer, amount,
                           checked_sub(self[signer], amount))
    ELSE [self |-> self, result |-> Err(AccountNotFound(signer))]

send_deposit(w, d) ==
    IF d.result.ok
    THEN [self |-> d.self, result |-> Ok(<<w.result.value, d.result.value>>)]
    ELSE d

send_withdrawn(w, recipient, amount) ==
    IF w.result.ok THEN send_deposit(w, deposit(w.self, recipient, amount))
    ELSE w

\* Accounts::send: the withdraw, then the deposit, `?` returning the first
\* error
send(self, sender, recipient, amount) ==
    send_withdrawn(withdraw(self, sender, amount), recipient, amount)

\* ------------------------------------------------------------------------
\* The engine as a state machine
\* ------------------------------------------------------------------------
VARIABLES
    ordinal,          \* MatchingEngine.ordinal
    bids,             \* MatchingEngine.bids : price -> heap of PartialOrder
    asks,             \* MatchingEngine.asks
    matches,          \* MatchingEngine.matches, the log of receipts
    overflow_checks,  \* "unobserved" until an operation overflows; then "on"
                      \* (the build panics) or "off" (the build wraps)
    panicked,         \* a call of process has panicked
    call              \* the last call of process: its order, its receipt,
                      \* the book before it, and what it matched and rested
    , inserted        \* ordinal -> quantity the order was put in the book with
    , taken           \* ordinal -> quantity matched against the order since
    , query           \* the last call of get_amount_at_price_level, if no
                      \* call of process came after it
    , accounts        \* Accounts.accounts
    , ledger_call     \* the last call of deposit, withdraw or send: its
                      \* arguments, its result and the accounts before it

vars == <<ordinal, bids, asks, matches, overflow_checks, panicked, call,
          inserted, taken, query, accounts, ledger_call>>

EmptyMap == [k \in {} |-> << >>]

NoCall == [made |-> FALSE]

NoQuery == [made |-> FALSE]

\* MatchingEngine::new
Init ==
    /\ ordinal = 0
    /\ bids = EmptyMap
    /\ asks = EmptyMap
    /\ matches = << >>
    /\ overflow_checks = "unobserved"
    /\ panicked = FALSE
    /\ call = NoCall
    /\ inserted = << >>
    /\ taken = << >>
    /\ query = NoQuery
    /\ accounts = Accounts_new
    /\ ledger_call = NoCall

TakenBy(r, o) ==
    SumSeq([k \in 1..Len(r.fills) |->
               IF r.fills[k].ordinal = o THEN r.takes[k] ELSE 0])

\* the engine, as the `self` of a call
Self == [ordinal |-> ordinal, bids |-> bids, asks |-> asks, matches |-> matches]

\* The call process(order) ends with the result r, in a build with overflow
\* checks or without.
Return(order, r, checks) ==
    /\ ordinal' = r.self.ordinal
    /\ bids' = r.self.bids
    /\ asks' = r.self.asks
    /\ matches' = r.self.matches
    /\ panicked' = r.panicked
    /\ overflow_checks' =
          IF ~r.overflowed THEN overflow_checks
          ELSE IF checks THEN "on" ELSE "off"
    /\ call' = [made |-> TRUE, order |-> order, returned |-> ~r.panicked,
                receipt |-> r.receipt, takes |-> r.takes,
                rested |-> r.rested, overflowed |-> r.overflowed,
                underflow |-> r.underflow, broke |-> r.broke,
                bids |-> bids, asks |-> asks]
    /\ inserted' = Append(inserted, r.rested)
    /\ taken' = [o \in 1..(ordinal + 1) |->
                    IF o <= ordinal THEN taken[o] + TakenBy(r, o) ELSE 0]
    /\ query' = NoQuery
    /\ UNCHANGED <<accounts, ledger_call>>

\* One call of process.  An overflowing operation panics in a build with
\* overflow checks and wraps in a build without; which build is running
\* shows at the first overflow and stays.  After a panic the engine is gone.
Process(order) ==
    \E r \in {process(Self, order, overflow_checks # "off")} :
        \/ Return(order, r, overflow_checks # "off")
        \/ /\ overflow_checks = "unobserved"
           /\ r.overflowed
           /\ Return(order, process(Self, order, FALSE), FALSE)

OrdersOf(side) ==
    [price : Prices, amount : Amounts, side : {side}, signer : Signers]

ProcessBuy ==
    /\ ~panicked
    /\ ordinal < MaxCalls
    /\ \E order \in OrdersOf("Buy") : Process(order)

ProcessSell ==
    /\ ~panicked
    /\ ordinal < MaxCalls
    /\ \E order \in OrdersOf("Sell") : Process(order)

Next == ProcessBuy \/ ProcessSell

Spec == Init /\ [][Next]_vars

\* The query get_amount_at_price_level(price, side) ends with the result r:
\* a value, or a panic where the sum overflows in a build with overflow
\* checks.  It takes `&self`.
QueryReturn(price, side, r, checks) ==
    /\ query' = [made |-> TRUE, price |-> price, side |-> side,
                 returned |-> ~(r.overflow /\ checks), value |-> r.value,
                 overflowed |-> r.overflow, self |-> Self]
    /\ panicked' = (r.overflow /\ checks)
    /\ overflow_checks' =
          IF ~r.overflow THEN overflow_checks
          ELSE IF checks THEN "on" ELSE "off"
    /\ UNCHANGED <<ordinal, bids, asks, matches, call, inserted, taken,
                   accounts, ledger_call>>

GetAmountAtPriceLevel ==
    /\ ~panicked
    /\ \E price \in Prices, side \in Side :
          \E r \in {get_amount_at_price_level(bids, asks, price, side)} :
              \/ QueryReturn(price, side, r, overflow_checks # "off")
              \/ /\ overflow_checks = "unobserved"
                 /\ r.overflow
                 /\ QueryReturn(price, side, r, FALSE)

QueryNext == ProcessBuy \/ ProcessSell \/ GetAmountAtPriceLevel

\* the engine with its query
QuerySpec == Init /\ [][QueryNext]_vars

\* The ledger call ends with the result r.
LedgerReturn(op, args, r) ==
    /\ accounts' = r.self
    /\ ledger_call' = [made |-> TRUE, op |-> op, args |-> args,
                       result |-> r.result, accounts |-> accounts]
    /\ UNCHANGED <<ordinal, bids, asks, matches, overflow_checks, panicked,
                   call, inserted, taken, query>>

Deposit ==
    \E signer \in Signers, amount \in LedgerAmounts :
        LedgerReturn("deposit", <<signer, amount>>,
                     deposit(accounts, signer, amount))

Withdraw ==
    \E signer \in Signers, amount \in LedgerAmounts :
        LedgerReturn("withdraw", <<signer, amount>>,
                     withdraw(accounts, signer, amount))

Send ==
    \E sender \in Signers, recipient \in Signers, amount \in LedgerAmounts :
        LedgerReturn("send", <<sender, recipient, amount>>,
                     send(accounts, sender, recipient, amount))

LedgerNext == Deposit \/ Withdraw \/ Send

\* the ledger
LedgerSpec == Init /\ [][LedgerNext]_vars

\* ------------------------------------------------------------------------
\* Vocabulary of the properties: the last call of process
\* ------------------------------------------------------------------------
Elems(s) == {s[i] : i \in 1..Len(s)}

\* the last call returned a Receipt
Returned == call.made /\ call.returned

Fills == call.receipt.matches

\* the side the last call matched against, before and after the call
PreOpposite == IF call.order.side = "Buy" THEN call.asks ELSE call.bids

PostOpposite == IF call.order.side = "Buy" THEN asks ELSE bids

Eligible(p) ==
    IF call.order.side = "Buy" THEN p <= call.order.price
    ELSE p >= call.order.price

\* the orders resting anywhere in the book
Resting ==
    UNION {Elems(bids[p]) : p \in DOMAIN bids}
        \cup UNION {Elems(asks[p]) : p \in DOMAIN asks}

\* ------------------------------------------------------------------------
\* C1: in every Receipt returned by process, the amounts of the fills sum
\* to at most the amount of the incoming order.
\* ------------------------------------------------------------------------
C1_FillsWithinIncomingAmount ==
    Returned => SumSeq(AmountsOf(Fills)) <= call.order.amount

\* ------------------------------------------------------------------------
\* C2: no fill of a returned Receipt has the signer of the incoming order.
\* ------------------------------------------------------------------------
C2_NoSelfTrade ==
    Returned => \A i \in 1..Len(Fills) : Fills[i].signer # call.order.signer

\* a call that skipped a resting order of the incoming signer and then
\* filled a later order of the same price level
C2_Witness ==
    /\ Returned
    /\ ~call.overflowed
    /\ \E i \in 1..Len(Fills) :
         /\ Fills[i].price \in DOMAIN PreOpposite
         /\ \E o \in Elems(PreOpposite[Fills[i].price]) :
              /\ o.signer = call.order.signer
              /\ o.ordinal < Fills[i].ordinal

\* ------------------------------------------------------------------------
\* C3: after a call of process every order of the incoming signer that was
\* resting on the opposite side is still in the book, at the same price
\* level, with the same ordinal and the same quantities.
\* ------------------------------------------------------------------------
C3_SelfMatchesKept ==
    Returned =>
        \A p \in DOMAIN PreOpposite :
            \A o \in Elems(PreOpposite[p]) :
                o.signer = call.order.signer =>
                    /\ p \in DOMAIN PostOpposite
                    /\ o \in Elems(PostOpposite[p])

\* ------------------------------------------------------------------------
\* C4: every fill of a Buy at price P has price <= P and every fill of a
\* Sell at price P has price >= P, and a call of process leaves the price
\* levels of the opposite side outside that range as they were.
\* ------------------------------------------------------------------------
C4_LimitPriceRespected ==
    call.made =>
        /\ \A i \in 1..Len(Fills) : Eligible(Fills[i].price)
        /\ \A p \in Prices :
              ~Eligible(p) =>
                  /\ p \in DOMAIN PostOpposite <=> p \in DOMAIN PreOpposite
                  /\ p \in DOMAIN PreOpposite => PostOpposite[p] = PreOpposite[p]

\* a call that filled an order while the opposite side held a price level
\* beyond the limit price
C4_Witness ==
    /\ Returned
    /\ ~call.overflowed
    /\ Fills # << >>
    /\ \E p \in DOMAIN PreOpposite : ~Eligible(p)

\* ------------------------------------------------------------------------
\* C5: the fills of a Sell's Receipt are in non-increasing price order, and
\* no bid is filled while a bid of another signer than the incoming one
\* rests at a higher price.
\* ------------------------------------------------------------------------
C5_SellPricePriority ==
    (Returned /\ call.order.side = "Sell") =>
        /\ \A i, j \in 1..Len(Fills) :
              i < j => Fills[i].price >= Fills[j].price
        /\ \A i \in 1..Len(Fills) :
              \A p \in DOMAIN bids :
                  p > Fills[i].price =>
                      \A o \in Elems(bids[p]) : o.signer = call.order.signer

\* ------------------------------------------------------------------------
\* C6: the fills of a Buy's Receipt are in non-decreasing price order, and
\* no ask is filled while an ask of another signer than the incoming one
\* rests at a lower price: every such ask the book held before the call was
\* filled earlier in the same call.
\* ------------------------------------------------------------------------
C6_BuyPricePriority ==
    (Returned /\ call.order.side = "Buy") =>
        /\ \A i, j \in 1..Len(Fills) :
              i < j => Fills[i].price <= Fills[j].price
        /\ \A i \in 1..Len(Fills) :
              \A p \in DOMAIN asks :
                  p < Fills[i].price =>
                      \A o \in Elems(asks[p]) : o.signer = call.order.signer
        /\ \A j \in 1..Len(Fills) :
              \A p \in DOMAIN call.asks :
                  p < Fills[j].price =>
                      \A o \in Elems(call.asks[p]) :
                          o.signer # call.order.signer
                              => \E i \in 1..(j - 1) : Fills[i].ordinal = o.ordinal

\* a Buy that filled asks at two different prices
C6_Witness ==
    /\ Returned
    /\ ~call.overflowed
    /\ call.order.side = "Buy"
    /\ \E i, j \in 1..Len(Fills) : Fills[i].price < Fills[j].price

RemainingsOf(s) == [i \in 1..Len(s) |-> s[i].remaining]

SumOfRemaining(price, side) ==
    LET map == IF side = "Buy" THEN bids ELSE asks
    IN  IF price \in DOMAIN map THEN SumSeq(RemainingsOf(map[price])) ELSE 0

C8_LevelAmountIsSumOfRemaining ==
    Returned =>
        \A price \in Prices, side \in Side :
            ~get_amount_at_price_level(bids, asks, price, side).overflow =>
                get_amount_at_price_level(bids, asks, price, side).value
                    = SumOfRemaining(price, side)

\* ------------------------------------------------------------------------
\* C9: after a call of process no order rests in the book whose whole
\* quantity (the quantity it was put in the book with, less everything
\* matched against it since) has been consumed.
\* ------------------------------------------------------------------------
C9_FilledOrdersLeaveTheBook ==
    Returned =>
        \A o \in Resting : inserted[o.ordinal] - taken[o.ordinal] > 0

\* ------------------------------------------------------------------------
\* C10: every call of process returns a Receipt, and no subtraction of a
\* matched quantity goes below zero.
\* ------------------------------------------------------------------------
C10_ProcessAlwaysSucceeds ==
    call.made => (call.returned /\ ~call.underflow)

\* the side of the incoming order of the last call, before and after the call
PreOwn == IF call.order.side = "Buy" THEN call.bids ELSE call.asks

PostOwn == IF call.order.side = "Buy" THEN bids ELSE asks

\* get_amount_at_price_level(price, side) before and after the last call
AmountBefore(price, side) ==
    get_amount_at_price_level(call.bids, call.asks, price, side)

AmountAfter(price, side) ==
    get_amount_at_price_level(bids, asks, price, side)

\* the queue of a price level, empty when the price is no key of the map
LevelOf(map, p) == IF p \in DOMAIN map THEN map[p] ELSE << >>

\* ------------------------------------------------------------------------
\* C11: for a process call of an order with amount A, price P and side S
\* whose Receipt fills sum to M: if M < A, get_amount_at_price_level(P, S)
\* grows by exactly A - M and no other level of side S changes; if M >= A,
\* nothing is added to side S.
\* ------------------------------------------------------------------------
C11_LeftoverRestsOnIncomingSide ==
    Returned =>
        LET A == call.order.amount
            P == call.order.price
            S == call.order.side
            M == SumSeq(AmountsOf(Fills))
            before == AmountBefore(P, S)
            after == AmountAfter(P, S)
        IN  /\ ~before.overflow
            /\ ~after.overflow
            /\ M < A => after.value = before.value + (A - M)
            /\ M >= A => after.value = before.value
            /\ \A p \in Prices \ {P} : LevelOf(PostOwn, p) = LevelOf(PreOwn, p)
            /\ M >= A => PostOwn = PreOwn

\* ------------------------------------------------------------------------
\* C12: in every Receipt returned by process, the amount of each fill is the
\* quantity this call consumed from that resting order (the decrease of its
\* remaining quantity), also when the order is consumed only in part.
\* ------------------------------------------------------------------------
C12_FillAmountIsConsumedQuantity ==
    Returned =>
        \A k \in 1..Len(Fills) : Fills[k].amount = call.takes[k]

\* ------------------------------------------------------------------------
\* C13: ordinals are assigned 1, 2, 3, ... in call order: the k-th call
\* returned a Receipt with ordinal k, the ordinal counter equals the number
\* of calls made, and no two orders resting in the book share an ordinal.
\* ------------------------------------------------------------------------
C13_OrdinalsInCallOrder ==
    /\ ordinal = Len(inserted)
    /\ Len(matches) = IF panicked THEN ordinal - 1 ELSE ordinal
    /\ \A k \in 1..Len(matches) : matches[k].ordinal = k
    /\ Returned => call.receipt.ordinal = ordinal
    /\ \A p \in DOMAIN bids : \A i, j \in 1..Len(bids[p]) :
           bids[p][i].ordinal = bids[p][j].ordinal => i = j
    /\ \A p \in DOMAIN asks : \A i, j \in 1..Len(asks[p]) :
           asks[p][i].ordinal = asks[p][j].ordinal => i = j
    /\ \A p, q \in DOMAIN bids : \A x \in Elems(bids[p]), y \in Elems(bids[q]) :
           x.ordinal = y.ordinal => p = q
    /\ \A p, q \in DOMAIN asks : \A x \in Elems(asks[p]), y \in Elems(asks[q]) :
           x.ordinal = y.ordinal => p = q
    /\ \A x \in UNION {Elems(bids[p]) : p \in DOMAIN bids} :
           \A y \in UNION {Elems(asks[p]) : p \in DOMAIN asks} :
               x.ordinal # y.ordinal

\* three calls were made, a matched one among them, and orders of different
\* calls rest in the book
C13_Witness ==
    /\ Returned
    /\ ordinal = 3
    /\ \E k \in 1..Len(matches) : matches[k].matches # << >>
    /\ Cardinality(Resting) >= 2

\* ------------------------------------------------------------------------
\* C14: after every process call neither bids nor asks holds a price level
\* whose queue is empty: a price is a key of a side's map exactly when an
\* order rests at that price on that side.
\* ------------------------------------------------------------------------
C14_NoEmptyPriceLevel ==
    ~panicked =>
        /\ \A p \in DOMAIN bids : bids[p] # << >>
        /\ \A p \in DOMAIN asks : asks[p] # << >>

\* the last call consumed every order of a level of the opposite side
C14_Witness ==
    /\ Returned
    /\ \E p \in DOMAIN PreOpposite :
           /\ PreOpposite[p] # << >>
           /\ p \notin DOMAIN PostOpposite

\* ------------------------------------------------------------------------
\* C15: get_amount_at_price_level changes no engine state (ordinal, bids,
\* asks, match log), and in every reachable state it returns 0 exactly when
\* no resting order is present at that price on that side.
\* ------------------------------------------------------------------------
C15_QueryReadsOnlyAndZeroMeansEmpty ==
    query.made =>
        /\ Self = query.self
        /\ query.returned
        /\ query.value = 0 <=>
               LevelOf(IF query.side = "Buy" THEN bids ELSE asks,
                       query.price) = << >>

\* ------------------------------------------------------------------------
\* C17: ledger errors leave the ledger unchanged: a deposit that would
\* overflow the account returns AccountOverFunded, a withdraw from a missing
\* account returns AccountNotFound, a withdraw of more than the balance
\* returns AccountUnderFunded, and in each case the Accounts map equals its
\* value before the call.
\* ------------------------------------------------------------------------
C17_LedgerErrorsLeaveLedgerUnchanged ==
    (ledger_call.made /\ ledger_call.op \in {"deposit", "withdraw"}) =>
        LET before == ledger_call.accounts
            signer == ledger_call.args[1]
            amount == ledger_call.args[2]
            result == ledger_call.result
        IN  /\ (/\ ledger_call.op = "deposit"
                /\ signer \in DOMAIN before
                /\ before[signer] + amount > U64_MAX)
                   => /\ result = Err(AccountOverFunded(signer, amount))
                      /\ accounts = before
            /\ (/\ ledger_call.op = "withdraw"
                /\ signer \notin DOMAIN before)
                   => /\ result = Err(AccountNotFound(signer))
                      /\ accounts = before
            /\ (/\ ledger_call.op = "withdraw"
                /\ signer \in DOMAIN before
                /\ amount > before[signer])
                   => /\ result = Err(AccountUnderFunded(signer, amount))
                      /\ accounts = before
            /\ ~result.ok => accounts = before

\* a deposit into an existing account was refused for overflow while the
\* ledger holds another account as well
C17_Witness ==
    /\ ledger_call.made
    /\ ledger_call.op = "deposit"
    /\ ledger_call.result = Err(AccountOverFunded(ledger_call.args[1],
                                                  ledger_call.args[2]))
    /\ ledger_call.args[2] < U64_MAX
    /\ DOMAIN ledger_call.accounts = Signers
    /\ \A signer \in Signers : ledger_call.accounts[signer] > 0

\* the resting order with ordinal o as the last call found it
PreRestingOrder(o) ==
    CHOOSE x \in UNION {Elems(PreOpposite[p]) : p \in DOMAIN PreOpposite} :
        x.ordinal = o

\* the unmatched quantity of the incoming order before its k-th fill
IncomingRemainderBefore(k) ==
    call.order.amount - SumSeq(SubSeq(call.takes, 1, k - 1))

Min(a, b) == IF a <= b THEN a ELSE b

\* ------------------------------------------------------------------------
\* C18: the quantity matched against each resting order is the minimum of
\* the incoming order's unmatched quantity at that moment and the resting
\* order's remaining quantity, and the resting order is decremented by it;
\* after earlier fills of the same call the incoming side of the minimum is
\* the reduced remainder, not the original amount.  The resting order's
\* remaining quantity is read from either of its two quantity fields, so
\* that only the incoming side of the minimum is at stake.
\* ------------------------------------------------------------------------
C18_MatchedIsMinOfRemainders ==
    Returned =>
        \A k \in 1..Len(Fills) :
            /\ \/ call.takes[k] =
                     Min(IncomingRemainderBefore(k),
                         PreRestingOrder(Fills[k].ordinal).remaining)
               \/ call.takes[k] =
                     Min(IncomingRemainderBefore(k),
                         PreRestingOrder(Fills[k].ordinal).amount)
            /\ Fills[k].remaining =
                  PreRestingOrder(Fills[k].ordinal).remaining - call.takes[k]

\* ------------------------------------------------------------------------
\* C19: whenever process pushes a filled resting order back onto its price
\* level and stops matching, the incoming order is exhausted: the matched
\* quantities of the call sum to the incoming amount and no leftover of the
\* incoming order is put on its own side.
\* ------------------------------------------------------------------------
C19_PushBackMeansIncomingExhausted ==
    (Returned /\ call.broke) =>
        /\ SumSeq(call.takes) = call.order.amount
        /\ call.rested = 0
        /\ PostOwn = PreOwn

\* ------------------------------------------------------------------------
\* C20: every order stored in bids or asks has 0 <= remaining <= amount, and
\* the leftover of a partially matched incoming order is stored with
\* remaining = the unmatched quantity and amount = the original amount.
\* ------------------------------------------------------------------------
C20_RemainingWithinAmount ==
    /\ \A x \in Resting : 0 <= x.remaining /\ x.remaining <= x.amount
    /\ (Returned /\ Fills # << >>) =>
           \A x \in Elems(LevelOf(PostOwn, call.order.price)) :
               x.ordinal = call.receipt.ordinal =>
                   /\ x.remaining = call.order.amount - SumSeq(call.takes)
                   /\ x.amount = call.order.amount

\* the orders resting on each side
RestingBids == UNION {Elems(bids[p]) : p \in DOMAIN bids}

RestingAsks == UNION {Elems(asks[p]) : p \in DOMAIN asks}

\* ------------------------------------------------------------------------
\* C21: a crossed book never persists: after every process call there is no
\* resting bid and resting ask of different signers with bid price >= ask
\* price.
\* ------------------------------------------------------------------------
C21_NoCrossedBook ==
    Returned =>
        \A b \in RestingBids, a \in RestingAsks :
            b.signer # a.signer => b.price < a.price

\* the side the last call matched against
OppositeSide == IF call.order.side = "Buy" THEN "Sell" ELSE "Buy"

RECURSIVE SumOver(_, _)
SumOver(f, S) ==
    IF S = {} THEN 0
    ELSE LET x == CHOOSE y \in S : TRUE
         IN  f[x] + SumOver(f, S \ {x})

\* get_amount_at_price_level summed over all prices of the opposite side,
\* before and after the last call
OppositeAmountBefore ==
    SumOver([p \in Prices |-> AmountBefore(p, OppositeSide).value], Prices)

OppositeAmountAfter ==
    SumOver([p \in Prices |-> AmountAfter(p, OppositeSide).value], Prices)

\* ------------------------------------------------------------------------
\* C22: quantity is conserved per call: the total resting quantity removed
\* from the opposite side (get_amount_at_price_level summed over all prices
\* before the call minus after it) equals the sum of the amount fields of
\* the fills of the returned Receipt.
\* ------------------------------------------------------------------------
C22_QuantityConserved ==
    Returned =>
        OppositeAmountBefore - OppositeAmountAfter = SumSeq(AmountsOf(Fills))

\* ------------------------------------------------------------------------
\* C23: process of an order of side S never removes, reorders or modifies an
\* order already resting on side S: the only change to side S is the
\* possible insertion of one new resting order carrying the incoming
\* order's ordinal, signer and limit price.
\* ------------------------------------------------------------------------
C23_OwnSideOnlyGainsTheIncomingOrder ==
    Returned =>
        \A p \in Prices :
            LET pre == LevelOf(PreOwn, p)
                post == LevelOf(PostOwn, p)
            IN  \/ post = pre
                \/ /\ p = call.order.price
                   /\ Len(post) = Len(pre) + 1
                   /\ SubSeq(post, 1, Len(pre)) = pre
                   /\ post[Len(post)].ordinal = call.receipt.ordinal
                   /\ post[Len(post)].signer = call.order.signer
                   /\ post[Len(post)].price = call.order.price
                   /\ post[Len(post)].side = call.order.side

\* the last call matched an order and put its leftover on a level of its
\* own side where an order was resting already
C23_Witness ==
    /\ Returned
    /\ Fills # << >>
    /\ LevelOf(PreOwn, call.order.price) # << >>
    /\ Len(LevelOf(PostOwn, call.order.price)) =
          Len(LevelOf(PreOwn, call.order.price)) + 1

\* the price level the last query read
QueriedLevel ==
    LevelOf(IF query.side = "Buy" THEN bids ELSE asks, query.price)

\* ------------------------------------------------------------------------
\* C24: get_amount_at_price_level never overflows: the value returned for a
\* price level holding several resting orders is the mathematical sum of
\* their quantities, not the sum modulo 2^w, and the call does not abort.
\* ------------------------------------------------------------------------
C24_LevelAmountNeverOverflows ==
    query.made =>
        /\ query.returned
        /\ query.value = SumSeq(AmountsOf(QueriedLevel))

\* the balance of an account, 0 for a missing account
BalanceIn(map, signer) == IF signer \in DOMAIN map THEN map[signer] ELSE 0

\* the sum of all balances
TotalOf(map) == SumOver(map, DOMAIN map)

\* ------------------------------------------------------------------------
\* C25: ledger send is all-or-nothing: when send(sender, recipient, amount)
\* returns an error (missing sender, insufficient funds or recipient
\* overflow) no balance has changed, and when it succeeds the sum of all
\* balances is unchanged, with the sender decreased and the recipient
\* increased by amount (read for a sender other than the recipient).
\* ------------------------------------------------------------------------
C25_SendIsAllOrNothing ==
    (ledger_call.made /\ ledger_call.op = "send") =>
        LET before == ledger_call.accounts
            sender == ledger_call.args[1]
            recipient == ledger_call.args[2]
            amount == ledger_call.args[3]
        IN  /\ ~ledger_call.result.ok => accounts = before
            /\ ledger_call.result.ok =>
                  /\ TotalOf(accounts) = TotalOf(before)
                  /\ sender # recipient =>
                        /\ BalanceIn(accounts, sender) =
                              BalanceIn(before, sender) - amount
                        /\ BalanceIn(accounts, recipient) =
                              BalanceIn(before, recipient) + amount
====
